---- MODULE Spec2Model ----
(***************************************************************************)
(* OpenRAN two-tier network design (RU -> DU -> CU).                       *)
(*                                                                         *)
(* The repository holds two scripts that build the same facility-location  *)
(* model from different distance sources:                                  *)
(*   variant "V2"   (main V2.py): straight-line distance x 1.3, with the   *)
(*                  relocation of an isolated RU to the STI anchor;        *)
(*   variant "main" (main.py): shortest-path distance over the road graph, *)
(*                  with the sentinel 1e9 for a pair with no path.         *)
(* Both hand the model to the MILP solver (PuLP/CBC), an opaque call that  *)
(* is modelled by its contract: a status and, when Optimal, the values of  *)
(* a minimum-cost assignment satisfying every constraint of the model.     *)
(*                                                                         *)
(* Units.  A site is an integer: a coordinate on a line (V2) or a node id  *)
(* of a path-shaped road graph (main).  One step is 10 m.  Variable values *)
(* are fixed-point with ValOne = 1.0; costs are kept in units of           *)
(* 1/(CostScale * ValOne) so that 1.5 per metre stays integral.            *)
(***************************************************************************)
EXTENDS Integers, FiniteSets, Sequences, TLC

VARIABLES
    variant,                \* which script runs: "V2" or "main"
    pc,                     \* position in the script
    cfg,                    \* CAP_DU, CAP_CU, MAX_DIST_FH_METROS, MAX_DIST_MH_METROS
    G,                      \* the road graph: its nodes and (main) the missing edge
    lista_rus,              \* RU sites (V2: lista_rus, main: nos_ru)
    candidatos_du,          \* DU candidate sites
    lista_candidatos_cu,    \* CU candidate sites
    dist_ru_du,             \* <<i, j>> -> metres
    dist_du_cu,             \* <<j, k>> -> metres
    alertas,                \* RU indices relocated by the repair (the ALERTA lines)
    prob,                   \* << >> until the LpProblem is built, then <<the model>>
    chamadas,               \* number of prob.solve() calls made
    status,                 \* pulp.LpStatus[prob.status]
    val,                    \* varValue of every variable (fixed point)
    saida                   \* what the run reports

vars == <<variant, pc, cfg, G, lista_rus, candidatos_du, lista_candidatos_cu,
          dist_ru_du, dist_du_cu, alertas, prob, chamadas, status, val, saida>>

-----------------------------------------------------------------------------
(* Bounds of the model *)

MaxCoord == 2           \* sites lie at coordinates 0..MaxCoord
MaxCap == 2             \* CAP_DU and CAP_CU are 1 or MaxCap

(* Sizes of the site lists: the scripts' constants, scaled down *)
NUM_RUS == 2            \* RUs of either script (V2: one carnival RU first)
NUM_RUS_CARNAVAL == 1
NUM_RUS_DISPERSAS == NUM_RUS - NUM_RUS_CARNAVAL
NUM_CANDIDATOS_DU == 1
NUM_CANDIDATOS_CU_EXTRA == 1
NUM_CANDIDATOS_CU == 1

(* Mutant: the CU candidates forgotten in the count *)
total_necessario_SemCU == NUM_RUS + NUM_CANDIDATOS_DU

(* main.py: the nodes the three slices of the shuffled list need *)
total_necessario == NUM_RUS + NUM_CANDIDATOS_DU + NUM_CANDIDATOS_CU

Abs(n) == IF n < 0 THEN -n ELSE n

Coords == 0..MaxCoord

(* The two anchors of LOCAIS_FIXOS that are candidates *)
STI_UFBA == 0
IFBA_BARBALHO == 1

Variants == {"V2", "main"}

(* 1.3 as a ratio *)
DetourNum == 13
DetourDen == 10

(* main.py's "infinite" distance *)
SENTINEL == 1000000000

(* Ceilings in metres.  V2: 5 reaches only a co-located site and 13 exactly
   one step (10 m x 1.3); main.py: 5 reaches exactly one edge and 13 two. *)
Ceilings == {5, 13}

(* Capacities: one link per facility, or MaxCap *)
Caps == {1, MaxCap}

Configs ==
    [CAP_DU : Caps, CAP_CU : Caps,
     MAX_DIST_FH_METROS : Ceilings, MAX_DIST_MH_METROS : Ceilings]

(* Road graphs.  V2 only draws sites from the graph's nodes; main.py routes
   over it: a path 1 - 2 - ... - n of 5 m edges whose edge (cut, cut+1) may be
   missing (cut = 0: none; a cut past the middle mirrors one before it). *)
Graphs(v) ==
    IF v = "V2"
    THEN { [nodes |-> 0..k, cut |-> 0] : k \in 1..MaxCoord }
    ELSE UNION { { [nodes |-> 1..n, cut |-> c] : c \in 0..(n \div 2) } :
                 n \in (total_necessario - 1)..total_necessario }

-----------------------------------------------------------------------------
(* Distances *)

calcular_distancia_geodesica(coord1, coord2) == 10 * Abs(coord1 - coord2)

dist_real(dist) == (dist * DetourNum) \div DetourDen

(* Mutant: NetworkXNoPath is not turned into the sentinel *)
get_street_distance_SemSentinela(graph, node1, node2) == 5 * Abs(node1 - node2)

get_street_distance(graph, node1, node2) ==
    LET lo == IF node1 < node2 THEN node1 ELSE node2
        hi == IF node1 < node2 THEN node2 ELSE node1
        NoPath == graph.cut >= lo /\ graph.cut < hi
    IN  IF NoPath THEN SENTINEL ELSE 5 * (hi - lo)

idx_ru == 1..Len(lista_rus)
idx_du == 1..Len(candidatos_du)
idx_cu == 1..Len(lista_candidatos_cu)

None == "None"

Init ==
    /\ variant \in Variants
    /\ pc = "start"
    /\ cfg \in Configs
    /\ G \in Graphs(variant)
    /\ lista_rus = << >>
    /\ candidatos_du = << >>
    /\ lista_candidatos_cu = << >>
    /\ dist_ru_du = << >>
    /\ dist_du_cu = << >>
    /\ alertas = {}
    /\ prob = << >>
    /\ chamadas = 0
    /\ status = None
    /\ val = None
    /\ saida = None

-----------------------------------------------------------------------------
(* Section 3: the sites *)

SeqsOver(S, n) == [1..n -> S]

(* Mutant: the STI anchor is not appended to the DU candidates *)
CandidatosDU_SemSTI(sorteio_du) == sorteio_du \o <<IFBA_BARBALHO>>

(* The DU candidates: the drawn nodes, then both anchors *)
CandidatosDU(sorteio_du) == sorteio_du \o <<STI_UFBA, IFBA_BARBALHO>>

(* main V2.py: RUs, then DU and CU candidates drawn with random.choice (with
   replacement) from the graph's nodes; both anchors are appended to the DU
   candidates and lead the CU candidates. *)
GerarCandidatos ==
    /\ pc = "start"
    /\ variant = "V2"
    /\ \E coords_carnaval \in SeqsOver(Coords, NUM_RUS_CARNAVAL),
          coords_dispersas \in SeqsOver(G.nodes, NUM_RUS_DISPERSAS),
          sorteio_du \in SeqsOver(G.nodes, NUM_CANDIDATOS_DU),
          candidatos_cu_novos \in SeqsOver(G.nodes, NUM_CANDIDATOS_CU_EXTRA) :
          /\ lista_rus' = coords_carnaval \o coords_dispersas
          /\ candidatos_du' = CandidatosDU(sorteio_du)
          /\ lista_candidatos_cu' = <<STI_UFBA, IFBA_BARBALHO>> \o candidatos_cu_novos
    /\ pc' = "dist"
    /\ UNCHANGED <<variant, cfg, G, dist_ru_du, dist_du_cu, alertas, prob,
                   chamadas, status, val, saida>>

(* main.py: too few nodes ends the script; otherwise the shuffled node list is
   cut into the three slices. *)
SelecionarNos ==
    /\ pc = "start"
    /\ variant = "main"
    /\ IF Cardinality(G.nodes) < total_necessario
       THEN /\ pc' = "exit"
            /\ UNCHANGED <<lista_rus, candidatos_du, lista_candidatos_cu>>
       ELSE /\ \E lista_de_nos \in SeqsOver(G.nodes, total_necessario) :
                 /\ \A a, b \in 1..total_necessario :
                        lista_de_nos[a] = lista_de_nos[b] => a = b
                 /\ lista_rus' = SubSeq(lista_de_nos, 1, NUM_RUS)
                 /\ candidatos_du' =
                        SubSeq(lista_de_nos, NUM_RUS + 1,
                               NUM_RUS + NUM_CANDIDATOS_DU)
                 /\ lista_candidatos_cu' =
                        SubSeq(lista_de_nos, NUM_RUS + NUM_CANDIDATOS_DU + 1,
                               total_necessario)
            /\ pc' = "dist"
    /\ UNCHANGED <<variant, cfg, G, dist_ru_du, dist_du_cu, alertas, prob,
                   chamadas, status, val, saida>>

-----------------------------------------------------------------------------
(* Section 4: the distance matrices *)

(* One RU's row of detour-scaled straight-line distances *)
LinhaRU(loc) ==
    [j \in idx_du |-> dist_real(calcular_distancia_geodesica(loc, candidatos_du[j]))]

du_viavel_encontrada(linha) ==
    \E j \in idx_du : linha[j] <= cfg.MAX_DIST_FH_METROS

(* Where RU i ends up: an RU with no DU candidate in range moves to the STI. *)
RepararRU(i) ==
    IF du_viavel_encontrada(LinhaRU(lista_rus[i])) THEN lista_rus[i] ELSE STI_UFBA

CalcularDistancias ==
    /\ pc = "dist"
    /\ IF variant = "V2"
       THEN /\ lista_rus' = [i \in idx_ru |-> RepararRU(i)]
            /\ alertas' = {i \in idx_ru : ~du_viavel_encontrada(LinhaRU(lista_rus[i]))}
            /\ dist_ru_du' = [p \in idx_ru \X idx_du |-> LinhaRU(RepararRU(p[1]))[p[2]]]
            /\ dist_du_cu' =
                 [p \in idx_du \X idx_cu |->
                    dist_real(calcular_distancia_geodesica(
                                candidatos_du[p[1]], lista_candidatos_cu[p[2]]))]
       ELSE /\ dist_ru_du' =
                 [p \in idx_ru \X idx_du |->
                    get_street_distance(G, lista_rus[p[1]], candidatos_du[p[2]])]
            /\ dist_du_cu' =
                 [p \in idx_du \X idx_cu |->
                    get_street_distance(G, candidatos_du[p[1]], lista_candidatos_cu[p[2]])]
            /\ UNCHANGED <<lista_rus, alertas>>
    /\ pc' = "build"
    /\ UNCHANGED <<variant, cfg, G, candidatos_du, lista_candidatos_cu, prob,
                   chamadas, status, val, saida>>

-----------------------------------------------------------------------------
(* Section 1: costs, kept as CostScale times the scripts' values *)

CostScale == 2

COSTO_INST_DU == CostScale * (IF variant = "V2" THEN 2000 ELSE 1000)
COSTO_INST_CU_NOVA == CostScale * 10000
COSTO_INST_CU_EXISTENTE == CostScale * 0
COSTO_INST_CU == CostScale * 5000
(* per metre: V2 1.5 on both tiers; main.py 2 (fronthaul) and 1 (midhaul) *)
COSTO_LINK_FH == IF variant = "V2" THEN 3 ELSE CostScale * 2
COSTO_LINK_MH == IF variant = "V2" THEN 3 ELSE CostScale * 1

candidatos_cu_fixos == {STI_UFBA, IFBA_BARBALHO}

(* Fixed point: a variable's value 1.0, and the extractor's 0.9 *)
ValOne == 100
LIMIAR == 90

Bin == {0, 1}

RECURSIVE SumTo(_, _)
SumTo(f, n) == IF n = 0 THEN 0 ELSE f[n] + SumTo(f, n - 1)

-----------------------------------------------------------------------------
(* Section 5: the model *)

(* The coefficient of z[k] in the objective *)
custo_cus(k) ==
    IF variant = "V2"
    THEN IF lista_candidatos_cu[k] \in candidatos_cu_fixos
         THEN COSTO_INST_CU_EXISTENTE
         ELSE COSTO_INST_CU_NOVA
    ELSE COSTO_INST_CU

(* Mutant: the fronthaul forcing loop adds nothing *)
ForaDoLimiteFH_Nunca(i, j) == FALSE

(* The pairs whose link variable the distance loops force to zero *)
ForaDoLimiteFH(i, j) == dist_ru_du[<<i, j>>] > cfg.MAX_DIST_FH_METROS

(* Mutant: the midhaul forcing loop adds nothing *)
ForaDoLimiteMH_Nunca(j, k) == FALSE

ForaDoLimiteMH(j, k) == dist_du_cu[<<j, k>>] > cfg.MAX_DIST_MH_METROS

ConstruirModelo ==
    /\ pc = "build"
    /\ prob' = << [custo_cu |-> [k \in idx_cu |-> custo_cus(k)],
                   x_zero |-> {p \in idx_ru \X idx_du : ForaDoLimiteFH(p[1], p[2])},
                   w_zero |-> {p \in idx_du \X idx_cu : ForaDoLimiteMH(p[1], p[2])}] >>
    /\ pc' = "solve"
    /\ UNCHANGED <<variant, cfg, G, lista_rus, candidatos_du, lista_candidatos_cu,
                   dist_ru_du, dist_du_cu, alertas, chamadas, status, val, saida>>

(* Mutant: the midhaul fibre term left out of the objective *)
Objetivo_SemMH(v) ==
      SumTo([j \in idx_du |-> COSTO_INST_DU * v.y[j]], Len(candidatos_du))
    + SumTo([k \in idx_cu |-> prob[1].custo_cu[k] * v.z[k]], Len(lista_candidatos_cu))
    + SumTo([i \in idx_ru |->
               SumTo([j \in idx_du |-> v.x[i][j] * COSTO_LINK_FH * dist_ru_du[<<i, j>>]],
                     Len(candidatos_du))], Len(lista_rus))

(* The objective at fixed-point values v = [y, z, x, w] *)
Objetivo(v) ==
      SumTo([j \in idx_du |-> COSTO_INST_DU * v.y[j]], Len(candidatos_du))
    + SumTo([k \in idx_cu |-> prob[1].custo_cu[k] * v.z[k]], Len(lista_candidatos_cu))
    + SumTo([i \in idx_ru |->
               SumTo([j \in idx_du |-> v.x[i][j] * COSTO_LINK_FH * dist_ru_du[<<i, j>>]],
                     Len(candidatos_du))], Len(lista_rus))
    + SumTo([j \in idx_du |->
               SumTo([k \in idx_cu |-> v.w[j][k] * COSTO_LINK_MH * dist_du_cu[<<j, k>>]],
                     Len(lista_candidatos_cu))], Len(candidatos_du))

(* The constraints, each on the part of the assignment it reads: xi is RU i's
   row x[i, .], wj is DU j's row w[j, .]. *)
(* Mutant: coverage written as "at most one" *)
Atendimento_RU_NoMaximo(xi) == SumTo(xi, Len(candidatos_du)) <= 1

Atendimento_RU(xi) == SumTo(xi, Len(candidatos_du)) = 1

Ativacao_Link_RU_DU(xi, y) == \A j \in idx_du : xi[j] <= y[j]

(* Mutant: the DU capacity row left out *)
Capacidade_DU_Livre(x, y, j) == TRUE

Capacidade_DU(x, y, j) ==
    SumTo([i \in idx_ru |-> x[i][j]], Len(lista_rus)) <= cfg.CAP_DU * y[j]

(* Mutant: the uplink written as "at most y[j]" *)
Atendimento_DU_NoMaximo(wj, yj) == SumTo(wj, Len(lista_candidatos_cu)) <= yj

Atendimento_DU(wj, yj) == SumTo(wj, Len(lista_candidatos_cu)) = yj

Ativacao_Link_DU_CU(wj, z) == \A k \in idx_cu : wj[k] <= z[k]

Capacidade_CU(w, z, k) ==
    SumTo([j \in idx_du |-> w[j][k]], Len(candidatos_du)) <= cfg.CAP_CU * z[k]

(* Mutant: the fronthaul forcing rows are not applied *)
Restricao_Dist_FH_Livre(xi, i) == TRUE

Restricao_Dist_FH(xi, i) == \A j \in idx_du : <<i, j>> \in prob[1].x_zero => xi[j] = 0

Restricao_Dist_MH(wj, j) == \A k \in idx_cu : <<j, k>> \in prob[1].w_zero => wj[k] = 0

(* All ways to pick one row per index 1..n: the functions f on 1..n with
   f[m] \in linhas[m]. *)
RECURSIVE Combinacoes(_, _)
Combinacoes(linhas, n) ==
    IF n = 0
    THEN { << >> }
    ELSE { Append(f, r) : f \in Combinacoes(linhas, n - 1), r \in linhas[n] }

(* Every 0/1 assignment that satisfies all the constraints: the x that go with
   y, the w that go with (y, z), and their combinations. *)
XCom(y) ==
    LET linhas == [i \in idx_ru |->
                    {r \in [idx_du -> Bin] :
                        /\ Atendimento_RU(r)
                        /\ Ativacao_Link_RU_DU(r, y)
                        /\ Restricao_Dist_FH(r, i)}]
    IN  {x \in Combinacoes(linhas, Len(lista_rus)) :
            \A j \in idx_du : Capacidade_DU(x, y, j)}

(* Mutant: the loop over the CU candidates (capacity and w <= z) left out *)
WCom_SemCU(y, z) ==
    LET linhas == [j \in idx_du |->
                    {r \in [idx_cu -> Bin] :
                        /\ Atendimento_DU(r, y[j])
                        /\ Restricao_Dist_MH(r, j)}]
    IN  Combinacoes(linhas, Len(candidatos_du))

WCom(y, z) ==
    LET linhas == [j \in idx_du |->
                    {r \in [idx_cu -> Bin] :
                        /\ Atendimento_DU(r, y[j])
                        /\ Ativacao_Link_DU_CU(r, z)
                        /\ Restricao_Dist_MH(r, j)}]
    IN  {w \in Combinacoes(linhas, Len(candidatos_du)) :
            \A k \in idx_cu : Capacidade_CU(w, z, k)}

ViaveisCom(y) ==
    LET X == XCom(y)
    IN  IF X = {}
        THEN {}
        ELSE UNION { { [y |-> y, z |-> z, x |-> x, w |-> w] :
                          x \in X, w \in WCom(y, z) } :
                     z \in [idx_cu -> Bin] }

Viaveis == UNION { ViaveisCom(y) : y \in [idx_du -> Bin] }

(* A 0/1 assignment as the solver hands it back: exact (e = 0), or each 1
   returned a tolerance e below 1. *)
Tol == {0, 1}

Devolvido(b, e) ==
    LET r(t) == IF t = 1 THEN ValOne - e ELSE 0
    IN  [y |-> [j \in idx_du |-> r(b.y[j])],
         z |-> [k \in idx_cu |-> r(b.z[k])],
         x |-> [i \in idx_ru |-> [j \in idx_du |-> r(b.x[i][j])]],
         w |-> [j \in idx_du |-> [k \in idx_cu |-> r(b.w[j][k])]]]

(* Mutant: any feasible assignment is returned, not a cheapest one *)
Otimas_Qualquer(V) == V

(* The minimum-cost members of V.  The objective is linear, so its order on
   0/1 values is its order on the values scaled by ValOne. *)
Otimas(V) ==
    LET custo == [b \in V |-> Objetivo(b)]
        minimo == CHOOSE c \in {custo[b] : b \in V} :
                    \A b \in V : c <= custo[b]
    IN  {b \in V : custo[b] = minimo}

(* prob.solve(): Optimal with a minimum-cost feasible assignment, Infeasible
   when there is none, or no verdict at all. *)
Resolver ==
    /\ pc = "solve"
    /\ chamadas' = chamadas + 1
    /\ LET V == Viaveis
       IN  \/ /\ V # {}
              /\ status' = "Optimal"
              /\ \E b \in Otimas(V), e \in Tol : val' = Devolvido(b, e)
           \/ /\ V = {}
              /\ status' = "Infeasible"
              /\ val' = None
           \/ /\ status' = "Not Solved"
              /\ val' = None
    /\ pc' = "report"
    /\ UNCHANGED <<variant, cfg, G, lista_rus, candidatos_du, lista_candidatos_cu,
                   dist_ru_du, dist_du_cu, alertas, prob, saida>>

-----------------------------------------------------------------------------
(* Sections 6/7: the report *)

(* V2 draws what is above 0.9; main.py lists what equals 1. *)
Ativo(v) == IF variant = "V2" THEN v > LIMIAR ELSE v = ValOne

(* The branch taken on the status *)
Mensagem(v, st) ==
    IF st = "Optimal"
    THEN IF v = "V2" THEN "Custo Total Estimado" ELSE "Custo Total Otimo Encontrado"
    ELSE IF v = "V2"
         THEN "Solucao Inviavel"
         ELSE IF st = "Infeasible"
              THEN "O problema e INVIAVEL"
              ELSE "O solver nao encontrou uma solucao otima"

Relatorio ==
    /\ pc = "report"
    /\ saida' =
         IF status = "Optimal"
         THEN [msg |-> Mensagem(variant, status),
               custo |-> Objetivo(val),
               c_ativas |-> {k \in idx_cu : Ativo(val.z[k])},
               d_ativas |-> {j \in idx_du : Ativo(val.y[j])},
               conexoes_ru_du |-> {p \in idx_ru \X idx_du : Ativo(val.x[p[1]][p[2]])},
               conexoes_du_cu |->
                   {p \in idx_du \X idx_cu :
                       /\ variant = "V2" => Ativo(val.y[p[1]])
                       /\ Ativo(val.w[p[1]][p[2]])}]
         ELSE [msg |-> Mensagem(variant, status),
               custo |-> None,
               c_ativas |-> {}, d_ativas |-> {},
               conexoes_ru_du |-> {}, conexoes_du_cu |-> {}]
    /\ pc' = "done"
    /\ UNCHANGED <<variant, cfg, G, lista_rus, candidatos_du, lista_candidatos_cu,
                   dist_ru_du, dist_du_cu, alertas, prob, chamadas, status, val>>

Next ==
    \/ GerarCandidatos
    \/ SelecionarNos
    \/ CalcularDistancias
    \/ ConstruirModelo
    \/ Resolver
    \/ Relatorio

Spec == Init /\ [][Next]_vars

-----------------------------------------------------------------------------
(* Properties of the returned solution.  A link or a facility is active when
   its returned value is above the extractor's threshold. *)

Resolvido == status = "Optimal"

Aberta(v) == v > LIMIAR

DUsDe(i) == {j \in idx_du : Aberta(val.x[i][j])}
RUsEm(j) == {i \in idx_ru : Aberta(val.x[i][j])}
CUsDe(j) == {k \in idx_cu : Aberta(val.w[j][k])}
DUsEm(k) == {j \in idx_du : Aberta(val.w[j][k])}

(* C1: in every solution returned with status Optimal, each RU has exactly
   one active RU -> DU link. *)
C1_Cobertura ==
    Resolvido => \A i \in idx_ru : Cardinality(DUsDe(i)) = 1

(* C1 witness: a solution in which two RUs are served by different DUs. *)
C1_Witness ==
    /\ Resolvido
    /\ \E i1, i2 \in idx_ru : DUsDe(i1) # DUsDe(i2)

(* C2: in every returned solution each active RU -> DU link is within
   MAX_DIST_FH and each active DU -> CU link within MAX_DIST_MH; a link
   variable exists for every pair, and the model forces to zero no pair whose
   distance equals the ceiling. *)
C2_Tetos ==
    /\ Resolvido =>
         /\ \A i \in idx_ru : \A j \in DUsDe(i) :
                dist_ru_du[<<i, j>>] <= cfg.MAX_DIST_FH_METROS
         /\ \A j \in idx_du : \A k \in CUsDe(j) :
                dist_du_cu[<<j, k>>] <= cfg.MAX_DIST_MH_METROS
         /\ \A i \in idx_ru : DOMAIN val.x[i] = idx_du
         /\ \A j \in idx_du : DOMAIN val.w[j] = idx_cu
    /\ prob # << >> =>
         /\ \A p \in prob[1].x_zero : dist_ru_du[p] # cfg.MAX_DIST_FH_METROS
         /\ \A p \in prob[1].w_zero : dist_du_cu[p] # cfg.MAX_DIST_MH_METROS

(* C2 witness: an active fronthaul link exactly at the ceiling, beside a pair
   beyond it whose variable is returned below the threshold. *)
C2_Witness ==
    /\ Resolvido
    /\ \E i \in idx_ru : \E j \in DUsDe(i) :
          dist_ru_du[<<i, j>>] = cfg.MAX_DIST_FH_METROS
    /\ \E i \in idx_ru : \E j \in idx_du :
          /\ dist_ru_du[<<i, j>>] > cfg.MAX_DIST_FH_METROS
          /\ j \notin DUsDe(i)
    /\ \E j \in idx_du : \E k \in idx_cu :
          dist_du_cu[<<j, k>>] > cfg.MAX_DIST_MH_METROS

(* C3: in every returned solution at most CAP_DU RUs are linked to a DU and
   at most CAP_CU DUs to a CU, and none to a closed facility. *)
C3_Capacidade ==
    Resolvido =>
      /\ \A j \in idx_du :
            /\ Cardinality(RUsEm(j)) <= cfg.CAP_DU
            /\ ~Aberta(val.y[j]) => RUsEm(j) = {}
      /\ \A k \in idx_cu :
            /\ Cardinality(DUsEm(k)) <= cfg.CAP_CU
            /\ ~Aberta(val.z[k]) => DUsEm(k) = {}

(* C3 witness: a full DU (more RUs than one DU may take) and a full CU. *)
C3_Witness ==
    /\ Resolvido
    /\ Len(lista_rus) > cfg.CAP_DU
    /\ \E j \in idx_du : Cardinality(RUsEm(j)) = cfg.CAP_DU
    /\ \E k \in idx_cu : Cardinality(DUsEm(k)) = cfg.CAP_CU

(* C4: in every returned solution a DU has an active DU -> CU link iff it is
   open, and an open DU has exactly one. *)
C4_UplinkSseAberta ==
    Resolvido =>
      \A j \in idx_du :
         /\ (CUsDe(j) # {}) <=> Aberta(val.y[j])
         /\ Aberta(val.y[j]) => Cardinality(CUsDe(j)) = 1

(* C4 witness: a solution with an open DU and a closed DU. *)
C4_Witness ==
    /\ Resolvido
    /\ \E j1, j2 \in idx_du :
          /\ Aberta(val.y[j1]) /\ CUsDe(j1) # {}
          /\ ~Aberta(val.y[j2]) /\ CUsDe(j2) = {}

(* C5: in every returned solution an active RU -> DU link ends at an open DU
   and an active DU -> CU link at an open CU. *)
C5_LinkImplicaAberta ==
    Resolvido =>
      /\ \A i \in idx_ru : \A j \in DUsDe(i) : Aberta(val.y[j])
      /\ \A j \in idx_du : \A k \in CUsDe(j) : Aberta(val.z[k])

(* C5 witness: active links on both tiers beside a closed DU and a closed CU. *)
C5_Witness ==
    /\ Resolvido
    /\ \E i \in idx_ru : DUsDe(i) # {}
    /\ \E j \in idx_du : CUsDe(j) # {}
    /\ \E j \in idx_du : ~Aberta(val.y[j])
    /\ \E k \in idx_cu : ~Aberta(val.z[k])

(* C6: in V2 an RU whose detour-scaled distance to every DU candidate exceeds
   MAX_DIST_FH is moved to the STI anchor and its row recomputed from there,
   and once the distance step is over every RU has a DU candidate within
   MAX_DIST_FH. *)
C6_Reparo ==
    /\ [][ (pc = "dist" /\ variant = "V2") =>
             \A i \in idx_ru :
                (\A j \in idx_du :
                    13 * Abs(lista_rus[i] - candidatos_du[j]) > cfg.MAX_DIST_FH_METROS)
                => /\ lista_rus'[i] = STI_UFBA
                   /\ \A j \in idx_du :
                        dist_ru_du'[<<i, j>>] = 13 * Abs(STI_UFBA - candidatos_du[j]) ]_vars
    /\ [] ( (variant = "V2" /\ pc \in {"build", "solve", "report", "done"}) =>
              \A i \in idx_ru :
                 \E j \in idx_du : dist_ru_du[<<i, j>>] <= cfg.MAX_DIST_FH_METROS )

(* C6 witness: the distance step is over, one RU was moved to the STI and
   another was left where it was. *)
C6_Witness ==
    /\ variant = "V2"
    /\ pc = "build"
    /\ \E i1, i2 \in idx_ru :
          /\ i1 \in alertas /\ lista_rus[i1] = STI_UFBA
          /\ i2 \notin alertas /\ lista_rus[i2] # STI_UFBA

(* C7: a status other than Optimal and Infeasible is reported with a message
   other than the one an Infeasible run gets. *)
C7_NaoResolvidoDistinto ==
    (pc = "done" /\ status \notin {"Optimal", "Infeasible"}) =>
        saida.msg # Mensagem(variant, "Infeasible")

(* An RU of main.py none of whose DU candidates has a path to it *)
LinhaSentinela(i) == \A j \in idx_du : dist_ru_du[<<i, j>>] = SENTINEL

SemCaminho(a, b) ==
    \E c \in 1..(Cardinality(G.nodes) - 1) : G.cut = c /\ ((a <= c) # (b <= c))

(* C8 as stated: with an all-sentinel row the run ends before the model is
   built and before the solver is called. *)
C8_FalhaAntesDoModelo ==
    (variant = "main" /\ dist_ru_du # << >> /\ \E i \in idx_ru : LinhaSentinela(i)) =>
        (prob = << >> /\ chamadas = 0 /\ pc \notin {"solve", "report", "done"})

(* C8 amended: a pair with no path gets the sentinel distance, and a run with
   an all-sentinel row builds the model and calls the solver all the same;
   that run never ends Optimal and reports no cost. *)
C8_SentinelaAteOSolver ==
    (variant = "main" /\ dist_ru_du # << >>) =>
      /\ \A i \in idx_ru : \A j \in idx_du :
            SemCaminho(lista_rus[i], candidatos_du[j]) =>
                dist_ru_du[<<i, j>>] = SENTINEL
      /\ \A j \in idx_du : \A k \in idx_cu :
            SemCaminho(candidatos_du[j], lista_candidatos_cu[k]) =>
                dist_du_cu[<<j, k>>] = SENTINEL
      /\ (\E i \in idx_ru : LinhaSentinela(i)) =>
            /\ pc # "exit"
            /\ pc \in {"report", "done"} =>
                  (prob # << >> /\ chamadas = 1 /\ status # "Optimal")
            /\ pc = "done" => saida.custo = None

(* C8 witness: a finished run whose RU had no path to any DU candidate, with
   the model built, the solver called and Infeasible reported. *)
C8_Witness ==
    /\ variant = "main"
    /\ pc = "done"
    /\ \E i \in idx_ru : LinhaSentinela(i)
    /\ prob # << >>
    /\ chamadas = 1
    /\ status = "Infeasible"
    /\ saida.msg = "O problema e INVIAVEL"

(* The four cost summands at given values of y, z, x and w *)
RECURSIVE Soma(_, _)
Soma(S, f) ==
    IF S = {}
    THEN 0
    ELSE LET e == CHOOSE e \in S : TRUE IN f[e] + Soma(S \ {e}, f)

CustoDe(vy, vz, vx, vw) ==
      Soma(idx_du, [j \in idx_du |-> COSTO_INST_DU * vy[j]])
    + Soma(idx_cu, [k \in idx_cu |-> custo_cus(k) * vz[k]])
    + Soma(idx_ru \X idx_du,
           [p \in idx_ru \X idx_du |-> vx[p] * COSTO_LINK_FH * dist_ru_du[p]])
    + Soma(idx_du \X idx_cu,
           [p \in idx_du \X idx_cu |-> vw[p] * COSTO_LINK_MH * dist_du_cu[p]])

Indicador(S, D) == [e \in D |-> IF e \in S THEN ValOne ELSE 0]

ValoresExatos ==
    /\ \A j \in idx_du : val.y[j] \in {0, ValOne}
    /\ \A k \in idx_cu : val.z[k] \in {0, ValOne}
    /\ \A i \in idx_ru : \A j \in idx_du : val.x[i][j] \in {0, ValOne}
    /\ \A j \in idx_du : \A k \in idx_cu : val.w[j][k] \in {0, ValOne}

(* C9 as stated: the reported cost of an Optimal run is the four summands
   re-evaluated on the open sets and active links got by thresholding. *)
C9_CustoReavaliado ==
    (pc = "done" /\ Resolvido) =>
        saida.custo =
            CustoDe(Indicador({j \in idx_du : Aberta(val.y[j])}, idx_du),
                    Indicador({k \in idx_cu : Aberta(val.z[k])}, idx_cu),
                    Indicador({p \in idx_ru \X idx_du : Aberta(val.x[p[1]][p[2]])},
                              idx_ru \X idx_du),
                    Indicador({p \in idx_du \X idx_cu : Aberta(val.w[p[1]][p[2]])},
                              idx_du \X idx_cu))

(* C9 amended: the reported cost of an Optimal run is the objective at the
   solver's raw values; when every raw value is exactly 0 or 1 it equals the
   four summands on the extracted open sets and links. *)
C9_CustoReportado ==
    (pc = "done" /\ Resolvido) =>
      /\ saida.custo =
            CustoDe(val.y, val.z,
                    [p \in idx_ru \X idx_du |-> val.x[p[1]][p[2]]],
                    [p \in idx_du \X idx_cu |-> val.w[p[1]][p[2]]])
      /\ ValoresExatos =>
            saida.custo =
                CustoDe(Indicador(saida.d_ativas, idx_du),
                        Indicador(saida.c_ativas, idx_cu),
                        Indicador(saida.conexoes_ru_du, idx_ru \X idx_du),
                        Indicador(saida.conexoes_du_cu, idx_du \X idx_cu))

(* C9 witness: an Optimal run with exact values reported, in which a
   fronthaul and a midhaul link of positive length are active. *)
C9_Witness ==
    /\ pc = "done"
    /\ Resolvido
    /\ ValoresExatos
    /\ \E p \in saida.conexoes_ru_du : dist_ru_du[p] > 0
    /\ \E p \in saida.conexoes_du_cu : dist_du_cu[p] > 0

(* The sites a run draws from the graph's nodes *)
Necessarios ==
    IF variant = "main"
    THEN NUM_RUS + NUM_CANDIDATOS_DU + NUM_CANDIDATOS_CU
    ELSE NUM_RUS_DISPERSAS + NUM_CANDIDATOS_DU + NUM_CANDIDATOS_CU_EXTRA

NadaFeito ==
    /\ pc \in {"start", "exit"}
    /\ dist_ru_du = << >> /\ dist_du_cu = << >>
    /\ prob = << >>
    /\ chamadas = 0

(* C10 as stated: with fewer nodes than the sites to draw, the run stops
   before any distance, model or solver call. *)
C10_PoucosNosParam ==
    Cardinality(G.nodes) < Necessarios => NadaFeito

(* C10 amended: that holds of main.py, which draws without replacement. *)
C10_PoucosNosMain ==
    (variant = "main" /\ Cardinality(G.nodes) < Necessarios) => NadaFeito

(* C10 witness: main.py stopped by its node count. *)
C10_Witness ==
    /\ variant = "main"
    /\ Cardinality(G.nodes) < Necessarios
    /\ pc = "exit"

(* RU i has DU candidate j, and no other, within the fronthaul ceiling *)
SoAlcanca(i, j) ==
    /\ dist_ru_du[<<i, j>>] <= cfg.MAX_DIST_FH_METROS
    /\ \A j2 \in idx_du \ {j} : dist_ru_du[<<i, j2>>] > cfg.MAX_DIST_FH_METROS

(* More RUs depend on one DU candidate alone than that DU may take *)
DUSobrecarregada ==
    /\ dist_ru_du # << >>
    /\ \E j \in idx_du :
          Cardinality({i \in idx_ru : SoAlcanca(i, j)}) > cfg.CAP_DU

(* C11: when more than CAP_DU RUs have the same DU candidate as their only
   candidate within MAX_DIST_FH, the model has no feasible assignment; the
   solver never returns Optimal, its verdict is Infeasible, and the run
   reports no solution. *)
C11_CapacidadeInviavel ==
    DUSobrecarregada =>
      /\ prob # << >> => Viaveis = {}
      /\ pc \in {"report", "done"} =>
            /\ status # "Optimal"
            /\ status # "Not Solved" => status = "Infeasible"
            /\ val = None
      /\ pc = "done" =>
            /\ saida.custo = None
            /\ saida.d_ativas = {} /\ saida.c_ativas = {}
            /\ saida.conexoes_ru_du = {} /\ saida.conexoes_du_cu = {}

(* C11 witness: a finished V2 run with CAP_DU = 1 and two RUs that only the
   same DU candidate reaches, beside DU candidates out of their range,
   reported Infeasible. *)
C11_Witness ==
    /\ pc = "done"
    /\ variant = "V2"
    /\ cfg.CAP_DU = 1
    /\ DUSobrecarregada
    /\ \E i \in idx_ru : \E j \in idx_du :
          dist_ru_du[<<i, j>>] > cfg.MAX_DIST_FH_METROS
    /\ status = "Infeasible"

(* CU candidate k is one of the anchors that lead lista_candidatos_cu; the
   candidates after them are the newly drawn ones. *)
PreExistente(k) == k <= Cardinality(candidatos_cu_fixos)

(* C12: in V2's objective the coefficient of z[k] is COSTO_INST_CU_EXISTENTE
   for a pre-existing CU candidate and COSTO_INST_CU_NOVA for a new one,
   whatever the candidate's coordinates. *)
C12_CustoPorCandidato ==
    (variant = "V2" /\ prob # << >>) =>
        \A k \in idx_cu :
            prob[1].custo_cu[k] =
                IF PreExistente(k) THEN COSTO_INST_CU_EXISTENTE
                                   ELSE COSTO_INST_CU_NOVA

(* DU candidate j has no CU candidate within the midhaul ceiling *)
DUSemCU(j) ==
    \A k \in idx_cu : dist_du_cu[<<j, k>>] > cfg.MAX_DIST_MH_METROS

(* RU i has no DU candidate within the fronthaul ceiling but such DUs *)
RUSoComDUSemCU(i) ==
    \A j \in idx_du :
        dist_ru_du[<<i, j>>] <= cfg.MAX_DIST_FH_METROS => DUSemCU(j)

(* C13: a DU candidate farther than MAX_DIST_MH from every CU candidate is
   closed and serves no RU in every feasible assignment, hence in every
   returned solution; and an RU whose in-range DU candidates are all such
   DUs leaves the model without a feasible assignment, so the run never ends
   Optimal and the solver's verdict is Infeasible. *)
C13_DUSemCUFechada ==
    /\ pc = "solve" =>
          /\ \A b \in Viaveis : \A j \in idx_du :
                DUSemCU(j) =>
                    /\ b.y[j] = 0
                    /\ \A i \in idx_ru : b.x[i][j] = 0
          /\ (\E i \in idx_ru : RUSoComDUSemCU(i)) => Viaveis = {}
    /\ Resolvido =>
          /\ \A j \in idx_du :
                DUSemCU(j) => (~Aberta(val.y[j]) /\ RUsEm(j) = {})
          /\ ~ \E i \in idx_ru : RUSoComDUSemCU(i)
    /\ (pc \in {"report", "done"} /\ \E i \in idx_ru : RUSoComDUSemCU(i)) =>
          /\ status # "Not Solved" => status = "Infeasible"
          /\ val = None

(* C13 witness: a returned solution in which a DU candidate with no CU in
   range stays closed while an RU within its fronthaul range is served by
   another DU. *)
C13_Witness ==
    /\ Resolvido
    /\ \E j \in idx_du :
          /\ DUSemCU(j)
          /\ ~Aberta(val.y[j])
          /\ \E i \in idx_ru :
                /\ dist_ru_du[<<i, j>>] <= cfg.MAX_DIST_FH_METROS
                /\ DUsDe(i) # {}

(* A finished run made Infeasible by an RU that only such DUs reach *)
C13_RUSemSaida ==
    /\ pc = "done"
    /\ status = "Infeasible"
    /\ \E i \in idx_ru :
          /\ RUSoComDUSemCU(i)
          /\ \E j \in idx_du : dist_ru_du[<<i, j>>] <= cfg.MAX_DIST_FH_METROS

(* A feasible 0/1 assignment that opens a DU no RU is linked to *)
AbreDUOciosa(b) ==
    \E j \in idx_du : b.y[j] = 1 /\ \A i \in idx_ru : b.x[i][j] = 0

(* C14: in every returned (minimum-cost) solution each open DU has at least
   one active RU -> DU link, and each open CU whose install coefficient is
   positive has at least one active DU -> CU link. *)
C14_SemDUOciosa ==
    Resolvido =>
      /\ \A j \in idx_du : Aberta(val.y[j]) => RUsEm(j) # {}
      /\ \A k \in idx_cu :
            (Aberta(val.z[k]) /\ prob[1].custo_cu[k] > 0) => DUsEm(k) # {}

(* C14 witness: a returned solution with an open DU, a closed DU and an open
   CU of positive install cost, of a model whose constraints alone admit an
   assignment with an idle open DU. *)
C14_Witness ==
    /\ Resolvido
    /\ \E j \in idx_du : Aberta(val.y[j])
    /\ \E j \in idx_du : ~Aberta(val.y[j])
    /\ \E k \in idx_cu : Aberta(val.z[k]) /\ prob[1].custo_cu[k] > 0
    /\ \E b \in Viaveis : AbreDUOciosa(b)

====
